---- MODULE Spec2Model ----
(***************************************************************************)
(* Model of the cwChat prompt renderer: app/services/system_message_store  *)
(* (SystemMessageStore, TemplateParam) and app/utils/date_utils (DateUtil). *)
(*                                                                         *)
(* A Python str is a sequence of tokens (TLA+ strings): concatenation is   *)
(* \o, the empty str is <<>>.  White space that str.strip() can reach and  *)
(* the "." of a render key are tokens of their own, so that split, strip   *)
(* and substring search are computed and not assumed.  A placeholder of a  *)
(* format string is the token "{name}".                                    *)
(***************************************************************************)
EXTENDS Integers, Sequences, FiniteSets, TLC

VARIABLES
    now,       \* the wall clock: hours since 2025-11-10T00:00Z
    catalog,   \* SystemMessageStore._ROLES / _BASE_VARIANTS / _EXTRA_VARIANTS
    call,      \* the call in progress: [op, args]
    result,    \* what the call returned or raised: [exc, value]
    first      \* history: the first render call kept for comparison, if any

vars == <<now, catalog, call, result, first>>

\* ------------------------------------------------------------------ bounds
MaxExtLen == 2
MaxVariants == 2      \* variant segments in a render key
MaxNow == 2           \* clock ticks (hours) after the initial instant

\* ------------------------------------------------------------ python values
None == <<"<None>">>          \* the value None
Unbound == <<"<unbound>">>    \* a local name that was never assigned

Ok(v) == [exc |-> "", value |-> v]
Raise(e) == [exc |-> e, value |-> None]

\* bool(value) of an optional str
Truthy(v) == v # None /\ v # <<>>

IsStr(v) == v # None /\ v # Unbound

\* except (TypeError, ValueError): ZoneInfoNotFoundError derives from KeyError
CaughtTypeOrValueError(e) == e \in {"TypeError", "ValueError"}

WS == {" "}

RECURSIVE LStrip(_)
LStrip(s) ==
    IF s # <<>> /\ Head(s) \in WS THEN LStrip(Tail(s)) ELSE s

RECURSIVE RStrip(_)
RStrip(s) ==
    IF s # <<>> /\ s[Len(s)] \in WS THEN RStrip(SubSeq(s, 1, Len(s) - 1)) ELSE s

\* str.strip()
Strip(s) == RStrip(LStrip(s))

\* needle in haystack
Contains(hay, needle) ==
    \E i \in 0..(Len(hay) - Len(needle)) :
        SubSeq(hay, i + 1, i + Len(needle)) = needle

\* token t occurs in s
HasToken(s, t) == \E i \in 1..Len(s) : s[i] = t

\* key.split(".")
RECURSIVE Split(_)
Split(s) ==
    IF ~ HasToken(s, ".") THEN << s >>
    ELSE LET i == CHOOSE j \in 1..Len(s) :
                      s[j] = "." /\ \A k \in 1..(j - 1) : s[k] # "."
         IN  << SubSeq(s, 1, i - 1) >> \o Split(SubSeq(s, i + 1, Len(s)))

\* sep.join(parts)
RECURSIVE Join(_, _)
Join(sep, parts) ==
    IF parts = <<>> THEN <<>>
    ELSE IF Len(parts) = 1 THEN parts[1]
    ELSE parts[1] \o sep \o Join(sep, Tail(parts))

\* name in mapping, for a str name and a mapping keyed by tokens
InDict(s, d) == IsStr(s) /\ Len(s) = 1 /\ s[1] \in DOMAIN d

\* ----------------------------------------------------------------- catalog
COMPANY_NAME == << "Common Wealth" >>
INDUSTRY == << "Retirement Fiance Service" >>
BUSINESS_AREA ==
    << "Common Wealth provides a digital-first group retirement platform in Canada that unifies planning, saving, investing, annuities, and expert support for members, employers, and advisors. Members benefit from an all-in-one experience that combines multiple account types into a single dashboard, offers automated savings, life-stage-aligned investments, retirement projections, and accessible expert guidance. Employers gain a fully digital setup and administration process, while advisors receive turnkey onboarding and reporting tools to grow their client base." >>

RoleSpec(title, responsibility, tasks) ==
    [title |-> << title >>, responsibility |-> << responsibility >>,
     tasks_line |-> << tasks >>]

ROLES ==
    ( "sales" :> RoleSpec("Retirement Solutions Sales Advisor",
        "member and employer acquisition for retirement plans",
        "Tasks: qualify employer groups, explain retirement plan value, run platform demos, guide prospects through pension options, respond to objections, and support onboarding coordination.") )
    @@ ( "product_manager" :> RoleSpec("Retirement Product Manager",
        "retirement platform strategy and experience design",
        "Tasks: define retirement product features, prioritize roadmap, analyze member outcomes, align with actuarial and compliance teams, and translate requirements for engineering.") )
    @@ ( "customer_support" :> RoleSpec("Member Support Specialist",
        "member and employer support for retirement plans",
        "Tasks: handle contribution inquiries, assist with account access, explain plan details, resolve benefit questions, and coordinate escalations across operations and compliance teams.") )
    @@ ( "engineering" :> RoleSpec("Platform Software Engineer",
        "development and maintenance of the retirement platform",
        "Tasks: design backend services, implement retirement calculation logic, optimize data flows, ensure platform security, review code, and collaborate with product and actuarial teams.") )
    @@ ( "hr" :> RoleSpec("People Operations Assistant",
        "internal HR support within a regulated fintech environment",
        "Tasks: support onboarding/offboarding, handle internal HR inquiries, assist with benefits, coordinate compliance training, and guide employees to documented HR policies without giving legal or tax advice.") )

\* The templates begin with a space; U+2264 and U+2014 are written <= and --.
BASE_VARIANTS ==
    ( "concise" :> << " ", "Keep the response concise (<= ", "{max_words}", " words)." >> )
    @@ ( "detailed" :> << " ", "Provide structured, actionable steps with short reasoning." >> )
    @@ ( "tool_first" :> << " ", "Use tools or retrieved evidence before answering; cite the results clearly." >> )
    @@ ( "no_hallucinations" :> << " ", "If uncertain or lacking information, say \"I don't know\" rather than guessing." >> )
    @@ ( "pii_safe" :> << " ", "Avoid exposing personal or financial information; mask identifiers except the last four digits." >> )
    @@ ( "tone_warm" :> << " ", "Use a warm, professional, member-centric tone." >> )
    @@ ( "tone_strict" :> << " ", "Use a formal, compliance-aware tone appropriate for regulated fintech." >> )
    @@ ( "escalate" :> << " ", "If the request touches compliance, regulatory, or financial risk, escalate using <handoff/>." >> )
    @@ ( "cite" :> << " ", "When referencing documents or data, cite them as [ref:ID] with source names." >> )
    @@ ( "multilingual" :> << " ", "Respond in the user's language (", "{locale}", ") when possible; otherwise default to ", "{default_language}", "." >> )

EXTRA_VARIANTS ==
    ( "sales" :>
        ( ( "value_framing" :> << " ", "Frame explanations around member and employer outcomes, emphasizing retirement readiness, cost efficiency, and the advantages of a digital-first pension platform." >> )
        @@ ( "discovery_first" :> << " ", "Begin by understanding the prospect's workforce, benefits needs, and retirement goals before positioning ", "{product}", " or ", "{service}", "." >> ) ) )
    @@ ( "product_manager" :>
        ( ( "data_driven" :> << " ", "Use member outcomes, contribution patterns, engagement metrics, and actuarial insights to support decisions. Avoid assumptions without validation." >> )
        @@ ( "prioritization_logic" :> << " ", "Communicate tradeoffs clearly using reasoning grounded in member impact, employer value, regulatory requirements, and alignment with ", "{company}", "'s long-term pension strategy." >> ) ) )
    @@ ( "customer_support" :>
        ( ( "empathy_first" :> << " ", "Respond with empathy and clarity, especially when addressing contributions, withdrawals, employer remittances, or retirement anxiety." >> )
        @@ ( "structured_troubleshooting" :> << " ", "Provide step-by-step troubleshooting; verify contribution timelines, account details, and plan rules before escalating." >> ) ) )
    @@ ( "engineering" :>
        ( ( "technical_clarity" :> << " ", "Offer clear, accurate technical explanations--especially regarding contribution pipelines, retirement calculations, data integrity, and integrations." >> )
        @@ ( "reliability_focus" :> << " ", "Recommend designs that prioritize reliability, accuracy of retirement projections, and maintainability of the pension platform." >> ) ) )
    @@ ( "hr" :>
        ( ( "neutral_tone" :> << " ", "Maintain a supportive, neutral tone when handling internal HR questions within a regulated environment." >> )
        @@ ( "policy_guided" :> << " ", "Base responses on documented HR processes; avoid legal, tax, or financial interpretations and direct employees to proper resources." >> ) ) )

Catalog == [roles |-> ROLES, base |-> BASE_VARIANTS, extra |-> EXTRA_VARIANTS]

\* ---------------------------------------------------------------- DateUtil
\* The calendar: ISO text of a date |-> days since 2025-11-10.
ISO_DATES ==
    ( "1970-01-01" :> -20402 ) @@ ( "2025-06-01" :> -162 ) @@ ( "2025-11-09" :> -1 )
    @@ ( "2025-11-10" :> 0 ) @@ ( "2025-11-11" :> 1 ) @@ ( "2025-11-12" :> 2 )

\* The IANA database (a sample): zone |-> UTC offset in hours in November 2025.
ZONES == ( "UTC" :> 0 ) @@ ( "America/Toronto" :> -5 ) @@ ( "Asia/Tokyo" :> 9 )

\* date.fromisoformat(str(value))
fromisoformat(v) ==
    IF InDict(v, ISO_DATES) THEN Ok(ISO_DATES[v[1]]) ELSE Raise("ValueError")

\* date.isoformat()
isoformat(d) == << CHOOSE s \in DOMAIN ISO_DATES : ISO_DATES[s] = d >>

\* zoneinfo.ZoneInfo(key): TypeError for a non-str, ValueError for a key that
\* is no normalized relative path, ZoneInfoNotFoundError (a KeyError) for a
\* well-formed key the database does not have.
ZoneInfo(key) ==
    IF ~ IsStr(key) THEN Raise("TypeError")
    ELSE IF key = <<>> \/ Head(key) = "/" THEN Raise("ValueError")
    ELSE IF InDict(key, ZONES) THEN Ok(key[1])
    ELSE Raise("ZoneInfoNotFoundError")

iso_date_or_default(value, default) ==
    IF ~ Truthy(value) THEN default
    ELSE LET d == fromisoformat(value)
         IN  IF d.exc = "" THEN isoformat(d.value) ELSE default

normalize_timezone(value) ==
    LET stripped == Strip(IF Truthy(value) THEN value ELSE << "UTC" >>)
        tz == IF stripped # <<>> THEN stripped ELSE << "UTC" >>
        z == ZoneInfo(tz)
    IN  IF z.exc = "" THEN Ok(tz)
        ELSE IF CaughtTypeOrValueError(z.exc) THEN Ok(<< "UTC" >>)
        ELSE Raise(z.exc)

\* datetime.now(tz_info).date().isoformat(); offset 0 is dt_timezone.utc
now_date_iso(tz) ==
    LET n == normalize_timezone(tz)
    IN  IF n.exc # ""
        THEN IF CaughtTypeOrValueError(n.exc) THEN Ok(isoformat(now \div 24)) ELSE n
        ELSE LET z == ZoneInfo(n.value)
                 offset == IF z.exc = "" THEN ZONES[z.value] ELSE 0
             IN  IF z.exc # "" /\ ~ CaughtTypeOrValueError(z.exc) THEN z
                 ELSE Ok(isoformat((now + offset) \div 24))

\* ----------------------------------------------------------- TemplateParam
TemplateParamFields ==
    {"company", "product", "service", "jurisdiction", "policy_url",
     "knowledge_cutoff", "today", "timezone"}

\* the dataclass fields declared without a default
TemplateParamRequired ==
    {"company", "product", "service", "jurisdiction", "policy_url"}

\* dict.get(key)
Get(d, k) == IF k \in DOMAIN d THEN d[k] ELSE None

from_partial(data, overrides) ==
    LET payload == overrides @@ data
        tz == normalize_timezone(Get(payload, "timezone"))
    IN  IF tz.exc # "" THEN tz
        ELSE
        LET kc_default == << "1970-01-01" >>
            td_default == now_date_iso(tz.value)
        IN  IF td_default.exc # "" THEN td_default
            ELSE
            LET coerced ==
                    ( "timezone" :> tz.value )
                    @@ ( "knowledge_cutoff" :>
                           iso_date_or_default(Get(payload, "knowledge_cutoff"), kc_default) )
                    @@ ( "today" :>
                           iso_date_or_default(Get(payload, "today"), td_default.value) )
                    @@ payload
                init_kwargs ==
                    [k \in DOMAIN coerced \cap TemplateParamFields |-> coerced[k]]
            IN  IF TemplateParamRequired \subseteq DOMAIN init_kwargs
                THEN Ok(init_kwargs)
                ELSE Raise("TypeError")

\* A dict is a function on the names it holds; **kwargs of a call likewise.
EmptyDict == [k \in {} |-> None]

\* ------------------------------------------------------ SystemMessageStore
\* the named parameters of render_content; any other keyword is **extra_fmt
RenderParams ==
    {"company", "industry", "product", "service", "business_area",
     "jurisdiction", "policy_url", "knowledge_cutoff", "today", "timezone",
     "locale", "default_language", "max_words"}

\* str(n) for the word limits in use
IntStr == ( 120 :> << "120" >> ) @@ ( 500 :> << "500" >> )

\* "{name}" |-> name
PLACEHOLDERS ==
    ( "{max_words}" :> "max_words" ) @@ ( "{locale}" :> "locale" )
    @@ ( "{default_language}" :> "default_language" ) @@ ( "{product}" :> "product" )
    @@ ( "{service}" :> "service" ) @@ ( "{company}" :> "company" )

\* phrase[:1] of the phrases in use
FirstChar ==
    ( "Retirement Solutions Sales Advisor" :> "R" ) @@ ( "Retirement Product Manager" :> "R" )
    @@ ( "Member Support Specialist" :> "M" ) @@ ( "Platform Software Engineer" :> "P" )
    @@ ( "People Operations Assistant" :> "P" )

\* _get_role_and_variants reporting the catalog miss as another error class
_get_role_and_variants_wrong_error(key) ==
    LET splits == Split(key)
    IN  IF ~ InDict(splits[1], catalog.roles) THEN Raise("ValueError")
        ELSE Ok([role |-> splits[1], variants |-> Tail(splits)])

_get_role_and_variants(key) ==
    LET splits == Split(key)
        role == splits[1]
        variants == Tail(splits)
    IN  IF ~ InDict(role, catalog.roles) THEN Raise("KeyError")
        ELSE Ok([role |-> role, variants |-> variants])

_value_or_default(value, default) == IF value # None THEN value ELSE default

_all_variants_for(category) ==
    IF category \in DOMAIN catalog.extra
    THEN catalog.extra[category] @@ catalog.base
    ELSE catalog.base

\* _all_variants_for with `out = SystemMessageStore._BASE_VARIANTS`: update()
\* then writes the extras into the shared table
_all_variants_for_aliased(category) ==
    [catalog EXCEPT !.base =
        (IF category \in DOMAIN catalog.extra THEN catalog.extra[category] ELSE EmptyDict)
        @@ catalog.base]

\* the catalog after _all_variants_for(category): `out` is dict(...), a copy,
\* and update() writes to the copy
_all_variants_for_catalog(category) == catalog

_a_or_an(phrase) ==
    IF phrase # <<>> /\ FirstChar[phrase[1]] \in {"A", "E", "I", "O", "U", "a", "e", "i", "o", "u"}
    THEN "an" ELSE "a"

\* _intro_line with `if service` in place of `elif service`
_intro_line_both_clauses(company, role, industry, company_business_area, product, service) ==
    LET role_spec == catalog.roles[role[1]]
        head == << "You are ", _a_or_an(role_spec.title), " " >> \o role_spec.title
                \o << " at " >> \o company \o << " in the " >> \o industry
                \o << " industry, your responsibility is " >> \o role_spec.responsibility
        area == IF Truthy(company_business_area)
                THEN << << ". " >> \o company_business_area >> ELSE <<>>
        p == IF Truthy(product)
             THEN << << "Now you ", "work with the " >> \o product \o << " product" >> >>
             ELSE <<>>
        s == IF Truthy(service)
             THEN << << "Not ", "you provide " >> \o service \o << " services" >> >>
             ELSE <<>>
    IN  Join(<< " " >>, << head >> \o area \o p \o s \o << role_spec.tasks_line >>)

_intro_line(company, role, industry, company_business_area, product, service) ==
    LET role_spec == catalog.roles[role[1]]
        head == << "You are ", _a_or_an(role_spec.title), " " >> \o role_spec.title
                \o << " at " >> \o company \o << " in the " >> \o industry
                \o << " industry, your responsibility is " >> \o role_spec.responsibility
        area == IF Truthy(company_business_area)
                THEN << << ". " >> \o company_business_area >> ELSE <<>>
        focus == IF Truthy(product)
                 THEN << << "Now you ", "work with the " >> \o product \o << " product" >> >>
                 ELSE IF Truthy(service)
                 THEN << << "Not ", "you provide " >> \o service \o << " services" >> >>
                 ELSE <<>>
        parts == << head >> \o area \o focus \o << role_spec.tasks_line >>
    IN  Join(<< " " >>, parts)

\* _time_line printing the current date in place of the today it is given
_time_line_clock(knowledge_cutoff, today, timezone) ==
    << " ", "Knowledge cutoff=" >> \o knowledge_cutoff \o << ". ", "Today=" >>
    \o isoformat(now \div 24) \o << " " >> \o timezone \o << "." >>

_time_line(knowledge_cutoff, today, timezone) ==
    << " ", "Knowledge cutoff=" >> \o knowledge_cutoff \o << ". ", "Today=" >> \o today
    \o << " " >> \o timezone \o << "." >>

\* _compliance_line testing `is not None` in place of bool()
_compliance_line_not_none(jurisdiction, policy_url) ==
    LET has_jurisdiction == jurisdiction # None
        has_policy_url == policy_url # None
    IN  IF has_jurisdiction /\ has_policy_url
        THEN << " ", "Comply", " with " >> \o jurisdiction \o << " policies", " and " >>
             \o policy_url \o << "." >>
        ELSE IF has_jurisdiction
        THEN << " ", "Comply", " with " >> \o jurisdiction \o << " policies", "." >>
        ELSE IF has_policy_url
        THEN << " ", "Follow internal policies", ": " >> \o policy_url \o << "." >>
        ELSE <<>>

_compliance_line(jurisdiction, policy_url) ==
    LET has_jurisdiction == Truthy(jurisdiction)
        has_policy_url == Truthy(policy_url)
    IN  IF has_jurisdiction /\ has_policy_url
        THEN << " ", "Comply", " with " >> \o jurisdiction \o << " policies", " and " >>
             \o policy_url \o << "." >>
        ELSE IF has_jurisdiction
        THEN << " ", "Comply", " with " >> \o jurisdiction \o << " policies", "." >>
        ELSE IF has_policy_url
        THEN << " ", "Follow internal policies", ": " >> \o policy_url \o << "." >>
        ELSE <<>>

\* the replacement fields of a format string, substituted
RECURSIVE Substitute(_, _)
Substitute(template, kwargs) ==
    IF template = <<>> THEN <<>>
    ELSE (IF Head(template) \in DOMAIN PLACEHOLDERS
          THEN kwargs[PLACEHOLDERS[Head(template)]]
          ELSE << Head(template) >>) \o Substitute(Tail(template), kwargs)

\* tail_template.format(max_words=, locale=, default_language=, **extra_fmt):
\* TypeError for a keyword given twice, KeyError for a field without a value
format(template, named, extra_fmt) ==
    IF DOMAIN named \cap DOMAIN extra_fmt # {} THEN Raise("TypeError")
    ELSE LET kwargs == named @@ extra_fmt
         IN  IF \E i \in 1..Len(template) :
                    /\ template[i] \in DOMAIN PLACEHOLDERS
                    /\ PLACEHOLDERS[template[i]] \notin DOMAIN kwargs
             THEN Raise("KeyError")
             ELSE Ok(Substitute(template, kwargs))

\* the loop body with `tail = ""` in the except clause
VariantTail_drop_on_error(variant_map, variant, named, extra_fmt) ==
    IF InDict(variant, variant_map)
    THEN LET tail_template == variant_map[variant[1]]
             formatted == format(tail_template, named, extra_fmt)
         IN  IF formatted.exc = "" THEN formatted.value ELSE <<>>
    ELSE <<>>

\* one pass of the loop body of render_content: the tail of one variant
VariantTail(variant_map, variant, named, extra_fmt) ==
    IF InDict(variant, variant_map)
    THEN LET tail_template == variant_map[variant[1]]
             formatted == format(tail_template, named, extra_fmt)
         IN  IF formatted.exc = "" THEN formatted.value ELSE tail_template
    ELSE <<>>

\* the value of `tail` after `for variant in variants`: each pass assigns it
RECURSIVE LoopTail(_, _, _, _, _)
LoopTail(variant_map, variants, named, extra_fmt, tail) ==
    IF variants = <<>> THEN tail
    ELSE LoopTail(variant_map, Tail(variants), named, extra_fmt,
                  VariantTail(variant_map, Head(variants), named, extra_fmt))

\* the signature with knowledge_cutoff: str = "1970-01-01"
BindRenderContent_cutoff_default(kw) ==
    Ok(kw @@
       [k \in {"company", "industry", "product", "service", "business_area",
               "jurisdiction", "policy_url", "today"} |-> None]
       @@ ( "knowledge_cutoff" :> << "1970-01-01" >> )
       @@ ( "timezone" :> << "UTC" >> ) @@ ( "locale" :> << "en" >> )
       @@ ( "default_language" :> << "en" >> ) @@ ( "max_words" :> 120 ))

\* binding of the keyword arguments to the signature of render_content
BindRenderContent(kw) ==
    IF "knowledge_cutoff" \notin DOMAIN kw THEN Raise("TypeError")
    ELSE Ok(kw @@
            [k \in {"company", "industry", "product", "service", "business_area",
                    "jurisdiction", "policy_url", "today"} |-> None]
            @@ ( "timezone" :> << "UTC" >> ) @@ ( "locale" :> << "en" >> )
            @@ ( "default_language" :> << "en" >> ) @@ ( "max_words" :> 120 ))

render_content(key, kw) ==
    LET bound == BindRenderContent(kw)
    IN  IF bound.exc # "" THEN bound
        ELSE
        LET a == bound.value
            extra_fmt == [k \in DOMAIN kw \ RenderParams |-> kw[k]]
            company == _value_or_default(a.company, COMPANY_NAME)
            industry == _value_or_default(a.industry, INDUSTRY)
            business_area == _value_or_default(a.business_area, BUSINESS_AREA)
            rv == _get_role_and_variants(key)
        IN  IF rv.exc # "" THEN rv
            ELSE
            LET role == rv.value.role
                variants == rv.value.variants
                intro == _intro_line(company, role, industry, business_area,
                                     a.product, a.service)
                tasks == catalog.roles[role[1]].tasks_line
                today == IF a.today # None THEN Ok(a.today) ELSE now_date_iso(<< "UTC" >>)
            IN  IF today.exc # "" THEN today
                ELSE
                LET time_line == _time_line(a.knowledge_cutoff, today.value, a.timezone)
                    compliance == _compliance_line(a.jurisdiction, a.policy_url)
                    variant_map == _all_variants_for(role[1])
                    named == ( "max_words" :> IntStr[a.max_words] )
                             @@ ( "locale" :> a.locale )
                             @@ ( "default_language" :> a.default_language )
                    tail == LoopTail(variant_map, variants, named, extra_fmt, Unbound)
                IN  IF tail = Unbound THEN Raise("UnboundLocalError")
                    ELSE Ok(Strip(intro \o << " " >> \o tasks \o time_line
                                  \o compliance \o << " " >> \o tail))

\* the catalog after render_content(key, **kw): the call reaches
\* _all_variants_for(role) unless it raised before
render_content_catalog(key, kw) ==
    IF BindRenderContent(kw).exc # "" \/ _get_role_and_variants(key).exc # ""
    THEN catalog
    ELSE _all_variants_for_catalog(_get_role_and_variants(key).value.role[1])

\* --------------------------------------------------------------- key listing
\* A dict keeps its keys in insertion order: the order of declaration.
ROLE_ORDER == << "sales", "product_manager", "customer_support", "engineering", "hr" >>

BASE_ORDER ==
    << "concise", "detailed", "tool_first", "no_hallucinations", "pii_safe",
       "tone_warm", "tone_strict", "escalate", "cite", "multilingual" >>

EXTRA_ORDER ==
    ( "sales" :> << "value_framing", "discovery_first" >> )
    @@ ( "product_manager" :> << "data_driven", "prioritization_logic" >> )
    @@ ( "customer_support" :> << "empathy_first", "structured_troubleshooting" >> )
    @@ ( "engineering" :> << "technical_clarity", "reliability_focus" >> )
    @@ ( "hr" :> << "neutral_tone", "policy_guided" >> )

\* the names of s that pass the test, in order
RECURSIVE Filter(_, _)
Filter(s, keep) ==
    IF s = <<>> THEN <<>>
    ELSE (IF Head(s) \in keep THEN << Head(s) >> ELSE <<>>) \o Filter(Tail(s), keep)

\* _all_variants_for(category).keys(): dict(base), then update(extras) appends
\* the names that are new
VariantOrder(category) ==
    Filter(BASE_ORDER, DOMAIN catalog.base)
    \o (IF category \in DOMAIN catalog.extra
        THEN Filter(EXTRA_ORDER[category],
                    DOMAIN catalog.extra[category] \ DOMAIN catalog.base)
        ELSE <<>>)

\* what an instance of SystemMessageStore has: the class attributes and the
\* methods; __init__ is not defined and sets nothing
StoreAttributes ==
    {"_COMPANY_NAME", "_INDUSTRY", "_BUSINESS_AREA", "_ROLES", "_BASE_VARIANTS",
     "_EXTRA_VARIANTS", "keys", "_get_role_and_variants", "render_content",
     "render_system_message", "build_prompt_template", "build_prompt_from_key"}

\* self.roles
self_roles ==
    IF "roles" \in StoreAttributes THEN Ok(ROLE_ORDER) ELSE Raise("AttributeError")

\* [f"{c}.{v}" for v in names]
RECURSIVE KeysOfRole(_, _)
KeysOfRole(c, names) ==
    IF names = <<>> THEN <<>>
    ELSE << << c, ".", Head(names) >> >> \o KeysOfRole(c, Tail(names))

\* the two nested loops of keys(): extras tells whether the inner loop runs
\* over _all_variants_for(c) or over _BASE_VARIANTS
RECURSIVE KeysLoop(_, _)
KeysLoop(roles, extras) ==
    IF roles = <<>> THEN <<>>
    ELSE KeysOfRole(Head(roles),
                    IF extras THEN VariantOrder(Head(roles))
                    ELSE Filter(BASE_ORDER, DOMAIN catalog.base))
         \o KeysLoop(Tail(roles), extras)

\* SystemMessageStore.keys()
keys ==
    LET roles == self_roles
    IN  IF roles.exc # "" THEN roles ELSE Ok(KeysLoop(roles.value, TRUE))

\* _all_keys()
_all_keys ==
    LET roles == self_roles
    IN  IF roles.exc # "" THEN roles ELSE Ok(KeysLoop(roles.value, FALSE))

\* ----------------------------------------------------------- prompt building
\* a keyword the caller may leave out, with the default of the signature
KwOr(kw, name, default) == IF name \in DOMAIN kw THEN kw[name] ELSE default

\* one (role, template) pair of the message list
Turn(role, template) == [role |-> role, template |-> template]

\* build_prompt_template appending the human turn before the history turn
build_prompt_template_human_first(system_text, kw) ==
    LET human == KwOr(kw, "human", << "{input}" >>)
        include_history == KwOr(kw, "include_history", TRUE)
        history_var == KwOr(kw, "history_var", << "history" >>)
        msgs0 == << Turn("system", system_text), Turn("human", human) >>
    IN  Ok(IF include_history
           THEN Append(msgs0, Turn("placeholder", << "{" >> \o history_var \o << "}" >>))
           ELSE msgs0)

\* the message list handed to ChatPromptTemplate.from_messages, which keeps
\* the messages in the order given
build_prompt_template(system_text, kw) ==
    LET human == KwOr(kw, "human", << "{input}" >>)
        include_history == KwOr(kw, "include_history", TRUE)
        history_var == KwOr(kw, "history_var", << "history" >>)
        msgs0 == << Turn("system", system_text) >>
        msgs1 == IF include_history
                 THEN Append(msgs0, Turn("placeholder", << "{" >> \o history_var \o << "}" >>))
                 ELSE msgs0
    IN  Ok(Append(msgs1, Turn("human", human)))

build_prompt_from_key(key, kw, render_kwargs) ==
    LET system_text == render_content(key, render_kwargs)
    IN  IF system_text.exc # "" THEN system_text
        ELSE build_prompt_template(system_text.value, kw)

\* ----------------------------------------------------------- FileLoadService
FILE_TYPE ==
    { << "FILE_TYPE.TEXT" >>, << "FILE_TYPE.PDF" >>, << "FILE_TYPE.MS_WORD" >>,
      << "FILE_TYPE.MS_EXCEL" >>, << "FILE_TYPE.MS_POWERPOINT" >>, << "FILE_TYPE.ZIP" >> }

\* self.file_types, in the order of the dict
file_types ==
    << [file_type |-> << "FILE_TYPE.TEXT" >>, ext |-> << << "txt" >> >>],
       [file_type |-> << "FILE_TYPE.PDF" >>, ext |-> << << "pdf" >> >>],
       [file_type |-> << "FILE_TYPE.MS_WORD" >>, ext |-> << << "doc" >>, << "docx" >> >>],
       [file_type |-> << "FILE_TYPE.MS_EXCEL" >>, ext |-> << << "xls" >>, << "xlsx" >> >>],
       [file_type |-> << "FILE_TYPE.MS_POWERPOINT" >>, ext |-> << << "ppt" >>, << "pptx" >> >>],
       [file_type |-> << "FILE_TYPE.ZIP" >>, ext |-> << << "zip" >> >>] >>

startswith(s, prefix) == Len(s) >= Len(prefix) /\ SubSeq(s, 1, Len(prefix)) = prefix

\* the inner loop of _map_to_ext: an assignment replaces an earlier entry
RECURSIVE MapExts(_, _, _)
MapExts(exts, file_type, ext_file_type_map) ==
    IF exts = <<>> THEN ext_file_type_map
    ELSE LET ext == Head(exts)
             dotted == IF ~ startswith(ext, << "." >>)
                       THEN (<< "." >> \o ext) :> file_type
                       ELSE EmptyDict
         IN  MapExts(Tail(exts), file_type, dotted @@ (ext :> file_type) @@ ext_file_type_map)

\* the outer loop of _map_to_ext
RECURSIVE MapTypes(_, _)
MapTypes(types, ext_file_type_map) ==
    IF types = <<>> THEN ext_file_type_map
    ELSE MapTypes(Tail(types),
                  MapExts(Head(types).ext, Head(types).file_type, ext_file_type_map))

_map_to_ext == MapTypes(file_types, EmptyDict)

\* self.ext_types, set once in __init__
ext_types == _map_to_ext

\* get_file_type_by_ext looking the extension up in the lists of file_types,
\* which hold no dotted form
get_file_type_by_ext_listed(ext) ==
    IF \E i \in DOMAIN file_types : \E j \in DOMAIN file_types[i].ext : file_types[i].ext[j] = ext
    THEN Ok(ext_types[ext])
    ELSE Ok(None)

get_file_type_by_ext(ext) ==
    IF ext \in DOMAIN ext_types THEN Ok(ext_types[ext]) ELSE Ok(None)

\* -------------------------------------------------------------- SessionUtils
\* Here a str is written character by character: len() counts them.
SESSION_ID_LENGTH == 64

\* get_or_create_session_id(session_id); fresh is what uuid.uuid4().hex gives
\* if it is called
get_or_create_session_id(session_id, fresh) ==
    IF Truthy(session_id) /\ Len(session_id) <= SESSION_ID_LENGTH
    THEN session_id
    ELSE fresh

\* GET /app/chat through inject_session_cookie and chat_page: the id the
\* template gets and the value of the session cookie the response sets, None
\* if it sets none. The middleware hands its session_id to nobody: chat_page
\* reads the request's cookie again.
chat_page_response(cookie, fresh_middleware, fresh_handler) ==
    LET new_session == ~ Truthy(cookie)
        session_id == IF new_session
                      THEN get_or_create_session_id(None, fresh_middleware)
                      ELSE cookie
        sid == get_or_create_session_id(cookie, fresh_handler)
    IN  Ok([session_id |-> sid,
            set_cookie |-> IF new_session THEN session_id ELSE None])

\* ------------------------------------------------------------------ inputs
Omitted == << "<omitted>" >>      \* marks a keyword the caller leaves out

Opt(k, v) == IF v = Omitted THEN EmptyDict ELSE k :> v
OptIf(present, k, v) == IF present THEN k :> v ELSE EmptyDict

FirstSegments ==
    { << r >> : r \in DOMAIN ROLES } \cup { <<>>, << "marketing" >> }

VariantSegments ==
    { << "concise" >>, << "no_hallucinations" >>, << "discovery_first" >>,
      << "nonexistent" >> }

\* role, role.variant, role.variant.variant, ...
Keys ==
    { Join(<< "." >>, segs) :
        segs \in UNION { { << r >> \o vs : r \in FirstSegments,
                                          vs \in [1..n -> VariantSegments] } :
                         n \in 0..MaxVariants } }

BaseKw ==
    ( "knowledge_cutoff" :> << "2025-06-01" >> ) @@ ( "today" :> << "2025-11-10" >> )
    @@ ( "timezone" :> << "America/Toronto" >> )

ComplianceKws ==
    { ( "jurisdiction" :> j ) @@ ( "policy_url" :> p ) @@ BaseKw :
        j \in { None, <<>>, << "SOX/PCI" >> },
        p \in { None, <<>>, << "https://intra.acme/policies/ai" >> } }

IntroKws ==
    { ( "product" :> pr ) @@ ( "service" :> s ) @@ ( "company" :> c ) @@ BaseKw :
        pr \in { None, <<>>, << "CarePortal" >> },
        s \in { None, << "Accounts Payable" >> },
        c \in { None, << "Acme Corp" >> } }

FormatKws ==
    { OptIf(mw, "max_words", 500)
      @@ OptIf(x, "refund_policy_url", << "https://intra.acme/policies/refunds" >>)
      @@ OptIf(l, "locale", << "fr" >>) @@ BaseKw :
        mw \in BOOLEAN, x \in BOOLEAN, l \in BOOLEAN }

TimeKws ==
    { Opt("knowledge_cutoff", kc) @@ Opt("today", td) @@ Opt("timezone", tz) :
        kc \in { Omitted, << "2025-06-01" >>, << "not-a-date" >> },
        td \in { Omitted, None, << "2025-11-10" >>, << "not-a-date" >> },
        tz \in { Omitted, << "America/Toronto" >>, << "Mars/Phobos" >> } }

\* the call of OllamaLLMChatService.__init__
OllamaKw ==
    ( "jurisdiction" :> << "SOX/PCI" >> ) @@ ( "max_words" :> 500 ) @@ BaseKw

RenderKwargs ==
    ComplianceKws \cup IntroKws \cup FormatKws \cup TimeKws \cup { OllamaKw }

TimezoneInputs ==
    { None, <<>>, << " ", " " >>, << "UTC" >>, << "America/Toronto" >>,
      << " ", "America/Toronto", " " >>, << "Asia/Tokyo" >>, << "Mars/Phobos" >>,
      << "Z" >>, << "/", "etc/localtime" >> }

DateInputs ==
    { None, <<>>, << "2025-06-01" >>, << "2025-11-10" >>, << "not-a-date" >> }

\* the value a caller passes for each field of a parameter bag
BagValue ==
    ( "company" :> << "Acme Corp" >> ) @@ ( "product" :> None )
    @@ ( "service" :> << "Accounts Payable" >> ) @@ ( "jurisdiction" :> << "SOX/PCI" >> )
    @@ ( "policy_url" :> None )

PartialBags ==
    { [k \in present |-> BagValue[k]]
      @@ Opt("timezone", tz) @@ Opt("knowledge_cutoff", kc) @@ Opt("today", td) :
        present \in SUBSET TemplateParamRequired,
        tz \in { Omitted, <<>>, << " ", "America/Toronto", " " >>, << "Mars/Phobos" >> },
        kc \in { Omitted, << "2025-06-01" >>, << "not-a-date" >> },
        td \in { Omitted, << "2025-11-10" >>, << "not-a-date" >> } }

Overrides == { EmptyDict, "timezone" :> << "UTC" >> }

SystemTexts ==
    { <<>>, << "You are a helpful assistant." >>,
      << "Answer about ", "{product}", "." >> }

TemplateKws ==
    { Opt("human", h) @@ Opt("history_var", hv) @@ i :
        h \in { Omitted, << "{input}" >>, << "{question}" >> },
        hv \in { Omitted, << "history" >>, << "chat_history" >> },
        i \in { EmptyDict, "include_history" :> TRUE, "include_history" :> FALSE } }

PromptKeys ==
    { << "sales" >>, << "hr", ".", "concise" >>, << "marketing" >> }

PromptRenderKws == { BaseKw, OllamaKw, EmptyDict }

\* the names an extension is written with
ExtTokens ==
    { ".", "txt", "pdf", "doc", "docx", "xls", "xlsx", "ppt", "pptx", "zip",
      "TXT", "invalid", " " }

RECURSIVE SeqsUpTo(_, _)
SeqsUpTo(S, n) ==
    IF n = 0 THEN { <<>> }
    ELSE LET shorter == SeqsUpTo(S, n - 1)
         IN  shorter \cup { Append(s, x) : s \in shorter, x \in S }

ExtInputs == SeqsUpTo(ExtTokens, MaxExtLen) \cup { None }

\* the session cookie a request carries: none, an empty one, a uuid hex, one
\* of SESSION_ID_LENGTH characters, one longer by a character
CookieInputs ==
    { None, <<>>, [i \in 1..32 |-> "c"], [i \in 1..SESSION_ID_LENGTH |-> "d"],
      [i \in 1..(SESSION_ID_LENGTH + 1) |-> "e"] }

\* values of uuid.uuid4().hex
UuidHex == { [i \in 1..32 |-> "a"], [i \in 1..32 |-> "b"] }

\* ----------------------------------------------------------------- actions
Idle == [op |-> "idle", args |-> EmptyDict]
NoResult == Ok(None)
NoFirst == [set |-> FALSE, at |-> 0, args |-> EmptyDict, result |-> NoResult]

Init ==
    /\ now = 22
    /\ catalog = Catalog
    /\ call = Idle
    /\ result = NoResult
    /\ first = NoFirst

\* store.render_content(key, **kw)
RenderContent ==
    /\ call.op = "idle"
    /\ \E key \in Keys, kw \in RenderKwargs :
        /\ call' = [op |-> "render_content", args |-> [key |-> key, kw |-> kw]]
        /\ result' = render_content(key, kw)
        /\ catalog' = render_content_catalog(key, kw)
    /\ UNCHANGED << now, first >>

\* DateUtil.normalize_timezone(value)
NormalizeTimezone ==
    /\ call.op = "idle"
    /\ \E value \in TimezoneInputs :
        /\ call' = [op |-> "normalize_timezone", args |-> [value |-> value]]
        /\ result' = normalize_timezone(value)
    /\ UNCHANGED << now, catalog, first >>

\* DateUtil.now_date_iso(tz)
NowDateIso ==
    /\ call.op = "idle"
    /\ \E tz \in TimezoneInputs :
        /\ call' = [op |-> "now_date_iso", args |-> [tz |-> tz]]
        /\ result' = now_date_iso(tz)
    /\ UNCHANGED << now, catalog, first >>

\* DateUtil.iso_date_or_default(value, default=default)
IsoDateOrDefault ==
    /\ call.op = "idle"
    /\ \E value \in DateInputs, default \in { << "1970-01-01" >>, << "2025-11-11" >> } :
        /\ call' = [op |-> "iso_date_or_default",
                    args |-> [value |-> value, default |-> default]]
        /\ result' = Ok(iso_date_or_default(value, default))
    /\ UNCHANGED << now, catalog, first >>

\* TemplateParam.from_partial(data, **overrides)
FromPartial ==
    /\ call.op = "idle"
    /\ \E data \in PartialBags, overrides \in Overrides :
        /\ call' = [op |-> "from_partial", args |-> [data |-> data, overrides |-> overrides]]
        /\ result' = from_partial(data, overrides)
    /\ UNCHANGED << now, catalog, first >>

\* store.keys()
ListKeys ==
    /\ call.op = "idle"
    /\ call' = [op |-> "keys", args |-> EmptyDict]
    /\ result' = keys
    /\ UNCHANGED << now, catalog, first >>

\* _all_keys()
AllKeys ==
    /\ call.op = "idle"
    /\ call' = [op |-> "_all_keys", args |-> EmptyDict]
    /\ result' = _all_keys
    /\ UNCHANGED << now, catalog, first >>

\* SystemMessageStore.build_prompt_template(system_text, **kw)
BuildPromptTemplate ==
    /\ call.op = "idle"
    /\ \E system_text \in SystemTexts, kw \in TemplateKws :
        /\ call' = [op |-> "build_prompt_template",
                    args |-> [system_text |-> system_text, kw |-> kw]]
        /\ result' = build_prompt_template(system_text, kw)
    /\ UNCHANGED << now, catalog, first >>

\* store.build_prompt_from_key(key, **kw, **render_kwargs)
BuildPromptFromKey ==
    /\ call.op = "idle"
    /\ \E key \in PromptKeys, kw \in TemplateKws, render_kwargs \in PromptRenderKws :
        /\ call' = [op |-> "build_prompt_from_key",
                    args |-> [key |-> key, kw |-> kw, render_kwargs |-> render_kwargs]]
        /\ result' = build_prompt_from_key(key, kw, render_kwargs)
        /\ catalog' = render_content_catalog(key, render_kwargs)
    /\ UNCHANGED << now, first >>

\* FileLoadService().get_file_type_by_ext(ext)
GetFileTypeByExt ==
    /\ call.op = "idle"
    /\ \E ext \in ExtInputs :
        /\ call' = [op |-> "get_file_type_by_ext", args |-> [ext |-> ext]]
        /\ result' = get_file_type_by_ext(ext)
    /\ UNCHANGED << now, catalog, first >>

\* a browser's GET /app/chat; each uuid4() call draws its own value
ChatPage ==
    /\ call.op = "idle"
    /\ \E cookie \in CookieInputs, fresh_middleware \in UuidHex, fresh_handler \in UuidHex :
        /\ call' = [op |-> "chat_page", args |-> [cookie |-> cookie]]
        /\ result' = chat_page_response(cookie, fresh_middleware, fresh_handler)
    /\ UNCHANGED << now, catalog, first >>

\* the caller takes the outcome; nothing of the call is kept
Return ==
    /\ call.op # "idle"
    /\ call' = Idle
    /\ result' = NoResult
    /\ UNCHANGED << now, catalog, first >>

\* the wall clock advances by an hour; a call reads it at one instant, so
\* time passes between the calls
Tick ==
    /\ call.op = "idle"
    /\ now < 22 + MaxNow
    /\ now' = now + 1
    /\ UNCHANGED << catalog, call, result, first >>

Next ==
    \/ RenderContent
    \/ NormalizeTimezone
    \/ NowDateIso
    \/ IsoDateOrDefault
    \/ FromPartial
    \/ ListKeys
    \/ AllKeys
    \/ BuildPromptTemplate
    \/ BuildPromptFromKey
    \/ GetFileTypeByExt
    \/ ChatPage
    \/ Return
    \/ Tick

Spec == Init /\ [][Next]_vars

\* -------------------------------------------------- render calls, compared
HistoryKeys ==
    { << "sales" >>, << "sales", ".", "concise" >>, << "sales", ".", "discovery_first" >>,
      << "hr", ".", "multilingual" >>, << "hr", ".", "concise", ".", "nonexistent" >>,
      << "marketing", ".", "concise" >> }

HistoryKwargs ==
    { kw \in TimeKws : "knowledge_cutoff" \in DOMAIN kw /\ kw.knowledge_cutoff = << "2025-06-01" >> }
    \cup { OllamaKw }

\* today and knowledge cutoff are supplied explicitly
ExplicitDates(kw) ==
    /\ "knowledge_cutoff" \in DOMAIN kw
    /\ "today" \in DOMAIN kw
    /\ kw.today # None

\* store.render_content(key, **kw); the first call with explicit dates is
\* kept, with the hour it was made at, for the later calls to be compared with
RenderContentRecorded ==
    /\ call.op = "idle"
    /\ \E key \in HistoryKeys, kw \in HistoryKwargs :
        /\ call' = [op |-> "render_content", args |-> [key |-> key, kw |-> kw]]
        /\ result' = render_content(key, kw)
        /\ catalog' = render_content_catalog(key, kw)
        /\ first' = IF ~ first.set /\ ExplicitDates(kw)
                    THEN [set |-> TRUE, at |-> now, args |-> [key |-> key, kw |-> kw],
                          result |-> render_content(key, kw)]
                    ELSE first
    /\ UNCHANGED now

NextHistory ==
    \/ RenderContentRecorded
    \/ Return
    \/ Tick

SpecHistory == Init /\ [][NextHistory]_vars

\* ------------------------------------------------------------------ claims
IsRender == call.op = "render_content"
Rendered == IsRender /\ result.exc = ""

\* the call supplies knowledge cutoff, today and timezone, all well formed
ValidTimeParams(kw) ==
    /\ {"knowledge_cutoff", "today", "timezone"} \subseteq DOMAIN kw
    /\ InDict(kw.knowledge_cutoff, ISO_DATES)
    /\ InDict(kw.today, ISO_DATES)
    /\ InDict(kw.timezone, ZONES)

\* C1: for every role of the catalog, rendering the bare role name with valid
\* parameters returns a non-empty text that contains the role's title.
C1_BareRoleRenders ==
    \A r \in DOMAIN ROLES :
        (IsRender /\ call.args.key = << r >> /\ ValidTimeParams(call.args.kw))
        => /\ result.exc = ""
           /\ result.value # <<>>
           /\ Contains(result.value, ROLES[r].title)

\* the tails of all the variants a key names, in the order named
RECURSIVE AllTails(_, _, _, _)
AllTails(variant_map, variants, named, extra_fmt) ==
    IF variants = <<>> THEN <<>>
    ELSE VariantTail(variant_map, Head(variants), named, extra_fmt)
         \o AllTails(variant_map, Tail(variants), named, extra_fmt)

ExpectedTails(key, kw) ==
    LET a == BindRenderContent(kw).value
        rv == _get_role_and_variants(key).value
    IN  AllTails(_all_variants_for(rv.role[1]), rv.variants,
                 ( "max_words" :> IntStr[a.max_words] ) @@ ( "locale" :> a.locale )
                 @@ ( "default_language" :> a.default_language ),
                 [k \in DOMAIN kw \ RenderParams |-> kw[k]])

\* C2: the rendered text contains the tail of every known variant the key
\* names, in the order named, a variant named twice contributing twice.
C2_EveryVariantTailIncluded ==
    Rendered => Contains(result.value, ExpectedTails(call.args.key, call.args.kw))

\* C3: for a known role r and a name that is no variant of r, rendering
\* r.<unknown> does not raise and returns the text that rendering r returns.
C3_UnknownVariantSameAsBareRole ==
    \A r \in DOMAIN ROLES :
        (/\ IsRender
         /\ "knowledge_cutoff" \in DOMAIN call.args.kw
         /\ Len(call.args.key) = 3
         /\ call.args.key[1] = r /\ call.args.key[2] = "."
         /\ call.args.key[3] \notin DOMAIN _all_variants_for(r))
        => /\ result.exc = ""
           /\ result = render_content(<< r >>, call.args.kw)

C5_MalformedTodayFallsBack ==
    (/\ IsRender
     /\ "knowledge_cutoff" \in DOMAIN call.args.kw
     /\ InDict(Split(call.args.key)[1], ROLES)
     /\ Len(Split(call.args.key)) > 1
     /\ "today" \in DOMAIN call.args.kw
     /\ Truthy(call.args.kw.today)
     /\ fromisoformat(call.args.kw.today).exc # ""
     /\ "timezone" \in DOMAIN call.args.kw
     /\ InDict(call.args.kw.timezone, ZONES))
    => /\ result.exc = ""
       /\ Contains(result.value,
                   << "Today=" >> \o now_date_iso(call.args.kw.timezone).value)
       /\ ~ Contains(result.value, << "Today=" >> \o call.args.kw.today)

\* C6: normalize_timezone never raises; it returns "UTC" for a missing, empty
\* or blank input and for any string that is no zone of the database, and a
\* valid zone name trimmed.
C6_NormalizeTimezoneNeverRaises ==
    call.op = "normalize_timezone"
    => /\ result.exc = ""
       /\ LET value == call.args.value
              trimmed == IF value = None THEN <<>> ELSE Strip(value)
          IN  IF InDict(trimmed, ZONES)
              THEN result.value = trimmed
              ELSE result.value = << "UTC" >>

\* C7: from_partial never raises: for every raw bag, one that omits company,
\* product, service, jurisdiction and policy_url included, it returns a
\* complete parameter set with each missing or malformed field defaulted.
C7_FromPartialNeverRaises ==
    call.op = "from_partial"
    => /\ result.exc = ""
       /\ LET payload == call.args.overrides @@ call.args.data
              v == result.value
          IN  /\ DOMAIN v = TemplateParamFields
              /\ "company" \notin DOMAIN payload => v.company = COMPANY_NAME
              /\ \A f \in {"product", "service", "jurisdiction", "policy_url"} :
                    f \notin DOMAIN payload => v[f] = None
              /\ v.knowledge_cutoff =
                    iso_date_or_default(Get(payload, "knowledge_cutoff"), << "1970-01-01" >>)
              /\ InDict(v.today, ISO_DATES)
              /\ InDict(v.timezone, ZONES)

\* the today value the time-boundary sentence of a render call shows
ShownToday(kw) ==
    IF "today" \in DOMAIN kw /\ kw.today # None THEN kw.today
    ELSE isoformat(now \div 24)

C9_ComplianceSentence ==
    Rendered
    => LET j == Get(call.args.kw, "jurisdiction")
           p == Get(call.args.kw, "policy_url")
           text == result.value
       IN  /\ (Truthy(j) /\ Truthy(p))
              => Contains(text, << "Comply", " with " >> \o j \o << " policies", " and " >>
                                \o p \o << "." >>)
           /\ (Truthy(j) /\ ~ Truthy(p))
              => /\ Contains(text, << "Comply", " with " >> \o j \o << " policies", "." >>)
                 /\ ~ HasToken(text, "Follow internal policies")
           /\ (~ Truthy(j) /\ Truthy(p))
              => /\ Contains(text, << "Follow internal policies", ": " >> \o p \o << "." >>)
                 /\ ~ HasToken(text, "Comply")
           /\ (~ Truthy(j) /\ ~ Truthy(p))
              => /\ ~ HasToken(text, "Comply")
                 /\ ~ HasToken(text, "Follow internal policies")

C9_Witness ==
    /\ Rendered
    /\ Get(call.args.kw, "jurisdiction") = << "SOX/PCI" >>
    /\ Get(call.args.kw, "policy_url") = <<>>
    /\ Contains(result.value, << ".", " ", "Comply", " with ", "SOX/PCI", " policies", ".", " " >>)

\* C10: with product and service both supplied the text has the product
\* clause "work with the {product} product" and no service clause; with
\* neither supplied it has neither clause.
C10_ProductServiceExclusive ==
    Rendered
    => LET product == Get(call.args.kw, "product")
           service == Get(call.args.kw, "service")
           text == result.value
       IN  /\ (Truthy(product) /\ Truthy(service))
              => /\ Contains(text, << "work with the " >> \o product \o << " product" >>)
                 /\ ~ Contains(text, service \o << " services" >>)
           /\ (~ Truthy(product) /\ ~ Truthy(service))
              => /\ ~ HasToken(text, "work with the ")
                 /\ ~ HasToken(text, " services")

C10_Witness ==
    /\ Rendered
    /\ Get(call.args.kw, "product") = << "CarePortal" >>
    /\ Get(call.args.kw, "service") = << "Accounts Payable" >>
    /\ Contains(result.value, << "Now you ", "work with the ", "CarePortal", " product" >>)

\* C11: with product absent and service present the intro of the rendered
\* text contains the service clause "You provide {service} services".
C11_ServiceClause ==
    (/\ Rendered
     /\ ~ Truthy(Get(call.args.kw, "product"))
     /\ Truthy(Get(call.args.kw, "service")))
    => Contains(result.value,
                << "You provide " >> \o call.args.kw.service \o << " services" >>)

\* every role.variant of the catalog: role-major in declaration order, the
\* base variants in declaration order, then the role's extras
RECURSIVE ExpectedKeys(_)
ExpectedKeys(roles) ==
    IF roles = <<>> THEN <<>>
    ELSE KeysOfRole(Head(roles), BASE_ORDER \o EXTRA_ORDER[Head(roles)])
         \o ExpectedKeys(Tail(roles))

\* C12: the key listing returns, without raising, every role.variant of the
\* catalog, role-major, base variants then the role's extras: 60 keys.
C12_KeysListsCatalog ==
    call.op = "keys"
    => /\ result.exc = ""
       /\ result.value = ExpectedKeys(ROLE_ORDER)
       /\ Len(result.value) = 60

\* C13: two render calls with the same key and parameters, today and
\* knowledge cutoff supplied explicitly, return the same outcome, whatever
\* the time between them and whatever render calls were made in between.
C13_RenderDeterministic ==
    (IsRender /\ first.set /\ call.args = first.args) => result = first.result

C13_Witness ==
    /\ Rendered
    /\ first.set
    /\ call.args = first.args
    /\ call.args.key = << "sales", ".", "concise" >>
    /\ first.at = 22
    /\ now = 24
    /\ result = first.result

\* C14: the catalog (roles, base variants, extra variants) is the one built at
\* start after any sequence of render, key-listing and other calls, failed
\* calls included.
C14_CatalogUnchanged == catalog = Catalog

C14_Witness ==
    /\ Rendered
    /\ call.args.key = << "sales", ".", "discovery_first" >>
    /\ catalog.base = BASE_VARIANTS
    /\ catalog.extra = EXTRA_VARIANTS

\* C15: build_prompt_template gives the system turn with the given text, then
\* the history placeholder turn "{history_var}", then the human turn; with
\* include_history false it gives exactly the system turn and the human turn.
\* build_prompt_from_key does the same with the rendered text as system text.
C15_TurnOrder ==
    (call.op \in { "build_prompt_template", "build_prompt_from_key" } /\ result.exc = "")
    => LET system_text ==
               IF call.op = "build_prompt_template" THEN call.args.system_text
               ELSE render_content(call.args.key, call.args.render_kwargs).value
           kw == call.args.kw
           turns == result.value
       IN  /\ turns[1] = Turn("system", system_text)
           /\ turns[Len(turns)] = Turn("human", KwOr(kw, "human", << "{input}" >>))
           /\ IF KwOr(kw, "include_history", TRUE)
              THEN /\ Len(turns) = 3
                   /\ turns[2] = Turn("placeholder",
                                      << "{" >> \o KwOr(kw, "history_var", << "history" >>)
                                      \o << "}" >>)
              ELSE Len(turns) = 2

C15_Witness ==
    /\ call.op = "build_prompt_from_key"
    /\ result.exc = ""
    /\ "history_var" \in DOMAIN call.args.kw
    /\ call.args.kw.history_var = << "chat_history" >>
    /\ "human" \in DOMAIN call.args.kw
    /\ call.args.kw.human = << "{question}" >>
    /\ KwOr(call.args.kw, "include_history", FALSE)
    /\ Len(result.value) = 3

\* C16: get_file_type_by_ext gives the type of txt, pdf, doc, docx, xls, xlsx,
\* ppt, pptx and zip, written with or without one leading dot, and None for
\* every other string, the empty one included.
ExpectedFileType ==
    "txt" :> "FILE_TYPE.TEXT" @@ "pdf" :> "FILE_TYPE.PDF"
    @@ "doc" :> "FILE_TYPE.MS_WORD" @@ "docx" :> "FILE_TYPE.MS_WORD"
    @@ "xls" :> "FILE_TYPE.MS_EXCEL" @@ "xlsx" :> "FILE_TYPE.MS_EXCEL"
    @@ "ppt" :> "FILE_TYPE.MS_POWERPOINT" @@ "pptx" :> "FILE_TYPE.MS_POWERPOINT"
    @@ "zip" :> "FILE_TYPE.ZIP"

C16_FileTypeByExt ==
    call.op = "get_file_type_by_ext"
    => LET ext == call.args.ext
           bare == IF Len(ext) = 2 /\ ext[1] = "." THEN Tail(ext) ELSE ext
       IN  /\ result.exc = ""
           /\ IF Len(bare) = 1 /\ bare[1] \in DOMAIN ExpectedFileType
              THEN result.value = << ExpectedFileType[bare[1]] >>
              ELSE result.value = None

C16_Witness ==
    /\ call.op = "get_file_type_by_ext"
    /\ call.args.ext = << ".", "docx" >>
    /\ result.value = << "FILE_TYPE.MS_WORD" >>

\* C17: a rendered text is the intro sentence, the role's tasks sentence, the
\* time sentence, the compliance sentence and the tails, in that order, and
\* the tasks sentence occurs in it exactly once.
Occurrences(hay, needle) ==
    Cardinality({ i \in 0..(Len(hay) - Len(needle)) :
                    SubSeq(hay, i + 1, i + Len(needle)) = needle })

C17_TasksSentenceOnce ==
    Rendered
    => Occurrences(result.value,
                   catalog.roles[Split(call.args.key)[1][1]].tasks_line) = 1

\* C18: the timezone is a zone of the IANA database or "UTC" wherever it ends
\* up: in the time sentence of a rendered text ("Today=<today> <timezone>.")
\* and in the parameter set from_partial returns, whatever the raw input was.
C18_TimezoneValidated ==
    /\ Rendered
       => \E z \in DOMAIN ZONES : \E i \in 1..Len(result.value) :
            /\ result.value[i] = "Today="
            /\ SubSeq(result.value, i + 2, i + 4) = << " ", z, "." >>
    /\ (call.op = "from_partial" /\ result.exc = "")
       => InDict(result.value.timezone, ZONES)

\* C19: a variant whose template names a placeholder the formatter gets no
\* value for never fails the render, and when it is the variant whose tail the
\* text carries, the text ends with the template as written, no placeholder
\* replaced. The formatter gets max_words, locale, default_language and the
\* caller's extra keywords; product, service and company are parameters of
\* render_content itself and never reach it.
C19_UnresolvedTailLiteral ==
    (/\ IsRender
     /\ "knowledge_cutoff" \in DOMAIN call.args.kw
     /\ InDict(Split(call.args.key)[1], catalog.roles))
    => LET kw == call.args.kw
           variants == Tail(Split(call.args.key))
           variant_map == _all_variants_for(Split(call.args.key)[1][1])
           supplied == { "max_words", "locale", "default_language" }
                       \cup (DOMAIN kw \ RenderParams)
           Unresolved(v) ==
               /\ InDict(v, variant_map)
               /\ \E i \in 1..Len(variant_map[v[1]]) :
                    /\ variant_map[v[1]][i] \in DOMAIN PLACEHOLDERS
                    /\ PLACEHOLDERS[variant_map[v[1]][i]] \notin supplied
           last == variants[Len(variants)]
       IN  /\ (\E j \in 1..Len(variants) : Unresolved(variants[j])) => result.exc = ""
           /\ (variants # <<>> /\ Unresolved(last))
              => LET template == variant_map[last[1]]
                     text == result.value
                 IN  /\ Len(text) >= Len(template)
                     /\ SubSeq(text, Len(text) - Len(template) + 1, Len(text)) = template

C19_Witness ==
    /\ Rendered
    /\ call.args.key = << "sales", ".", "concise", ".", "discovery_first" >>
    /\ Truthy(Get(call.args.kw, "product"))
    /\ HasToken(result.value, "{product}")
    /\ HasToken(result.value, "{service}")

\* C20: a request to the chat page without a session cookie gets, in the page
\* template, the id that the response sets as session cookie; a request with a
\* session cookie of at most 64 characters keeps that id and gets no cookie.
C20_StableSessionId ==
    call.op = "chat_page"
    => LET cookie == call.args.cookie
           page == result.value
       IN  /\ cookie = None => page.session_id = page.set_cookie
           /\ (Truthy(cookie) /\ Len(cookie) <= 64)
              => /\ page.session_id = cookie
                 /\ page.set_cookie = None

====
